---- MODULE Spec2Model ----
(***************************************************************************)
(* A model of the caching forward proxy of src/src/main.rs: the            *)
(* per-connection handler handle_connection, the pure text functions it    *)
(* calls, and the cache directory that concurrent handlers share.          *)
(*                                                                         *)
(* Text is modelled byte by byte: a Rust String or byte buffer is a        *)
(* sequence of numbers 0..255.  The byte alphabet of the inputs is ASCII   *)
(* plus bytes in 0x80..0xBF that stand alone (a continuation byte with no  *)
(* lead byte), so a buffer is valid UTF-8 iff every byte is below 128.     *)
(***************************************************************************)
EXTENDS Integers, Sequences, FiniteSets, TLC

(***************************************************************************)
(* Bounds of the model.                                                    *)
(***************************************************************************)
\* Number of client connections accepted, one handler thread each.
NumHandlers == 2
\* Most bytes of an origin response that an I/O error may cut off its end.
MaxLost == 1
\* Most bytes of a cache write that reach the file when the write fails.
MaxPartial == 1
\* Most I/O failures the environment deals in one run, all handlers together.
MaxFaults == 1

(***************************************************************************)
(* Program constants and string literals of the source.                    *)
(***************************************************************************)
BUFFER_SIZE == 4096

\* " "
SP == <<32>>
\* "/"
SLASH == <<47>>
\* "\r\n"
CRLF == <<13, 10>>
\* "\r\n\r\n"
CRLFCRLF == <<13, 10, 13, 10>>
\* ": "
COLON_SP == <<58, 32>>
\* "HTTP/1.1"
HTTP11 == <<72, 84, 84, 80, 47, 49, 46, 49>>
\* "200"
S200 == <<50, 48, 48>>
\* " 200 OK\r\n\r\n"
OK_LINE == <<32, 50, 48, 48, 32, 79, 75, 13, 10, 13, 10>>
\* "gzip"
GZIP == <<103, 122, 105, 112>>
\* "Content-Encoding"
CONTENT_ENCODING == <<67, 111, 110, 116, 101, 110, 116, 45, 69, 110, 99, 111, 100, 105, 110, 103>>
\* "Content-Length"
CONTENT_LENGTH == <<67, 111, 110, 116, 101, 110, 116, 45, 76, 101, 110, 103, 116, 104>>
\* "Accept-Encoding:"
ACCEPT_ENCODING == <<65, 99, 99, 101, 112, 116, 45, 69, 110, 99, 111, 100, 105, 110, 103, 58>>
\* U+FFFD REPLACEMENT CHARACTER in UTF-8
REPLACEMENT == <<239, 191, 189>>
\* The two magic bytes that open every gzip member (RFC 1952).
GZ_MAGIC == <<31, 139>>

(***************************************************************************)
(* Text primitives of the Rust standard library, computed as it does.      *)
(***************************************************************************)
MinOf(S) == CHOOSE x \in S : \A y \in S : x <= y

Tail2(s, from) == SubSeq(s, from, Len(s))

\* Index of the leftmost occurrence of pat in s, 0 when there is none.
Find(s, pat) ==
  LET n == Len(pat)
      at == {i \in 1..(Len(s) - n + 1) : SubSeq(s, i, i + n - 1) = pat}
  IN IF at = {} THEN 0 ELSE MinOf(at)

\* str::split(pat).collect(): the pieces between the non-overlapping matches
\* of pat, found left to right; a string without a match is its own one piece.
RECURSIVE Split(_, _)
Split(s, pat) ==
  LET i == Find(s, pat)
  IN IF i = 0 THEN <<s>>
     ELSE <<SubSeq(s, 1, i - 1)>> \o Split(Tail2(s, i + Len(pat)), pat)

\* std::str::from_utf8(..).is_ok() on the model's byte alphabet.
IsUtf8(bytes) == \A i \in 1..Len(bytes) : bytes[i] < 128

\* String::from_utf8_lossy: every invalid byte becomes U+FFFD.
RECURSIVE FromUtf8Lossy(_)
FromUtf8Lossy(bytes) ==
  LET bad == {i \in 1..Len(bytes) : bytes[i] >= 128}
  IN IF bad = {} THEN bytes
     ELSE LET i == MinOf(bad)
          IN SubSeq(bytes, 1, i - 1) \o REPLACEMENT
               \o FromUtf8Lossy(Tail2(bytes, i + 1))

(***************************************************************************)
(* The pure functions of main.rs.  A function that can panic returns a     *)
(* record whose field ok tells whether it returned.                        *)
(***************************************************************************)
\* get_request after a successful read of `data`: the whole zeroed buffer,
\* not only the bytes read, is decoded.
get_request(data) ==
  LET n == IF Len(data) < BUFFER_SIZE THEN Len(data) ELSE BUFFER_SIZE
      buffer == SubSeq(data, 1, n) \o [i \in 1..(BUFFER_SIZE - n) |-> 0]
  IN FromUtf8Lossy(buffer)

\* A check that looks at "HTTP/1." only.
check_version_prefix(version) ==
  Len(version) = 8 /\ SubSeq(version, 1, 7) = SubSeq(HTTP11, 1, 7)

check_version(version) == version = HTTP11

\* parse_request: words[1] and words[2] are unchecked indexings.
parse_request(request) ==
  LET lines == Split(request, CRLF)
      words == Split(lines[1], SP)
  IN IF Len(words) < 3
       THEN [ok |-> FALSE, method |-> <<>>, url |-> <<>>, version |-> <<>>]
       ELSE [ok |-> TRUE, method |-> words[1], url |-> words[2],
             version |-> words[3]]

\* A cache key that keeps the host: everything after "scheme://".
get_file_name_with_host(url) ==
  LET parts == Split(url, SLASH)
  IN IF Len(parts) < 3 THEN parts[Len(parts)]
     ELSE Tail2(url, Len(parts[1]) + Len(parts[2]) + 3)

get_file_name(url) ==
  LET parts == Split(url, SLASH)
  IN parts[Len(parts)]

get_server_name(url) ==
  LET parts == Split(url, SLASH)
  IN IF Len(parts) < 3 THEN <<>> ELSE parts[3]

\* The text log_request appends after the time stamp line.
log_message(request) == Split(request, ACCEPT_ENCODING)[1] \o <<10>>

\* The request of line 221, written to the origin.
origin_request(method, url, server_name) ==
  method \o SP \o url \o SP \o HTTP11 \o CRLF
    \o <<72, 111, 115, 116, 58, 32>> \o server_name \o CRLF
    \o <<67, 111, 110, 110, 101, 99, 116, 105, 111, 110, 58, 32,
         107, 101, 101, 112, 45, 97, 108, 105, 118, 101>> \o CRLF
    \o ACCEPT_ENCODING
    \o <<32, 103, 122, 105, 112, 44, 32, 100, 101, 102, 108, 97, 116, 101>>
    \o CRLFCRLF

\* Read::read_to_string into the empty `response` after the origin delivered
\* `data` (and then closed, or failed): text that is valid UTF-8 stays in the
\* string whether or not the call returned an error, text that is not leaves
\* the string empty.  The call's Result is discarded (line 228).
read_to_string(data) == IF IsUtf8(data) THEN data ELSE <<>>

\* A gzip member reduced to what the decoder checks: the magic bytes, the
\* bytes of one stored block, and a size trailer.
GzEncode(bytes) == GZ_MAGIC \o bytes \o <<Len(bytes) % 256>>

\* GzDecoder::read_to_end: ok tells whether it returned Ok; data is what it
\* left in the buffer, also when it failed after decoding a part.
GzDecode(body) ==
  IF Len(body) < 3 \/ SubSeq(body, 1, 2) # GZ_MAGIC
    THEN [ok |-> FALSE, data |-> <<>>]
    ELSE LET payload == SubSeq(body, 3, Len(body) - 1)
         IN [ok |-> body[Len(body)] = Len(payload) % 256, data |-> payload]

\* The value of header `name` after the loop of lines 260-278: the last line
\* whose first ": "-piece is `name` wins; ok is FALSE when such a line has no
\* second piece (words[1] panics).
RECURSIVE header_value(_, _, _)
header_value(lines, name, sofar) ==
  IF lines = <<>> THEN [ok |-> TRUE, value |-> sofar]
  ELSE LET words == Split(Head(lines), COLON_SP)
       IN IF words[1] = name
            THEN IF Len(words) < 2 THEN [ok |-> FALSE, value |-> <<>>]
                 ELSE header_value(Tail(lines), name, words[2])
            ELSE header_value(Tail(lines), name, sofar)

\* Lines 230-286 of handle_connection on `text`, the local `response`:
\*   kind "panic"  an unchecked indexing failed;
\*   kind "relay"  the status is not "200", the response goes to the client;
\*   kind "store"  `buffer` is to be cached and served; gzip_ok is FALSE when
\*                 the decoder reported an error, which line 286 discards.
digest(text) ==
  LET tokens == Split(text, SP)
      parts == Split(text, CRLFCRLF)
      lines == Split(parts[1], CRLF)
      enc == header_value(lines, CONTENT_ENCODING, <<>>)
      len == header_value(lines, CONTENT_LENGTH, <<>>)
      none == [kind |-> "panic", status |-> <<>>, buffer |-> <<>>,
               gzip |-> FALSE, gzip_ok |-> TRUE]
  IN IF Len(tokens) < 2 THEN none
     ELSE IF tokens[2] # S200 THEN [none EXCEPT !.kind = "relay", !.status = tokens[2]]
     ELSE IF Len(parts) < 2 \/ ~enc.ok \/ ~len.ok THEN [none EXCEPT !.status = tokens[2]]
     ELSE IF enc.value = GZIP
       THEN [kind |-> "store", status |-> tokens[2], buffer |-> GzDecode(parts[2]).data,
             gzip |-> TRUE, gzip_ok |-> GzDecode(parts[2]).ok]
       ELSE [kind |-> "store", status |-> tokens[2], buffer |-> parts[2],
             gzip |-> FALSE, gzip_ok |-> TRUE]

(***************************************************************************)
(* The inputs: what a client sends and what an origin answers.             *)
(***************************************************************************)
\* "GET"
GET == <<71, 69, 84>>
\* "HTTP/1.0"
HTTP10 == <<72, 84, 84, 80, 47, 49, 46, 48>>
\* "http://a/f", "http://b/d/f": two hosts, the same last segment "f"
UrlAF == <<104, 116, 116, 112, 58, 47, 47, 97, 47, 102>>
UrlBDF == <<104, 116, 116, 112, 58, 47, 47, 98, 47, 100, 47, 102>>
\* "http://a/g"
UrlAG == <<104, 116, 116, 112, 58, 47, 47, 97, 47, 103>>
\* "http://a/": no file name;  "/f": origin form, no server name
UrlNoFile == <<104, 116, 116, 112, 58, 47, 47, 97, 47>>
UrlOriginForm == <<47, 102>>

Targets == {UrlAF, UrlBDF, UrlAG, UrlNoFile, UrlOriginForm}

RequestText(method, url, version) ==
  method \o SP \o url \o SP \o version \o CRLFCRLF

\* What one read of a client socket returns in the runs of concurrent
\* handlers: a request for the same file name on each of two hosts, one for
\* another file name, and one with the wrong version.
CommonData ==
  {RequestText(GET, UrlAF, HTTP11), RequestText(GET, UrlBDF, HTTP11),
   RequestText(GET, UrlAG, HTTP11), RequestText(GET, UrlAF, HTTP10)}

\* All that a read of a client socket returns in the model: the well-formed
\* requests, a request line of two tokens, a request with no CRLF, and
\* nothing at all.
ClientData ==
  CommonData
    \cup {RequestText(GET, u, v) : u \in Targets, v \in {HTTP11, HTTP10}}
    \cup {GET \o SP \o UrlAF \o CRLFCRLF,
          GET \o SP \o UrlAF \o SP \o HTTP11,
          <<>>}

\* "hi", "yo"
Bodies == {<<104, 105>>, <<121, 111>>}
\* "HTTP/1.1 200 OK"
StatusOk == HTTP11 \o <<32, 50, 48, 48, 32, 79, 75>>
\* "HTTP/1.1 404 Not Found"
StatusNotFound ==
  HTTP11 \o <<32, 52, 48, 52, 32, 78, 111, 116, 32, 70, 111, 117, 110, 100>>
\* "Content-Length: 2"
HdrLength == CONTENT_LENGTH \o COLON_SP \o <<50>>
\* "Content-Encoding: gzip"
HdrGzip == CONTENT_ENCODING \o COLON_SP \o GZIP

\* The complete replies an origin gives in the runs of concurrent handlers:
\* a 200 with each body, a 200 with a gzip body, a 200 that says gzip over a
\* body that is none, and a 404.
CommonReplies ==
  {StatusOk \o CRLF \o HdrLength \o CRLFCRLF \o b : b \in Bodies}
    \cup {StatusOk \o CRLF \o HdrGzip \o CRLFCRLF \o GzEncode(<<104, 105>>),
          StatusOk \o CRLF \o HdrGzip \o CRLFCRLF \o <<104, 105>>,
          StatusNotFound \o CRLFCRLF \o <<110, 111>>}

\* All the complete replies of the model: also a 404 with a binary body, a
\* 200 and a 404 with no blank line, a body that holds a blank line, a reply
\* whose status line has one token and whose header holds "200", and a
\* Content-Encoding header with no value.
OriginReplies ==
  CommonReplies
    \cup {StatusOk \o CRLF \o HdrGzip \o CRLFCRLF \o GzEncode(<<121, 111>>),
          StatusNotFound \o CRLFCRLF \o <<139>>,
          StatusOk \o CRLF,
          StatusNotFound \o CRLF,
          StatusOk \o CRLFCRLF \o <<97>> \o CRLFCRLF \o <<98>>,
          HTTP11 \o CRLF \o <<88>> \o COLON_SP \o S200 \o SP \o CRLFCRLF \o <<98>>,
          StatusOk \o CRLF \o CONTENT_ENCODING \o CRLFCRLF \o <<104, 105>>}

\* What the handler's read of the origin socket may deliver: a reply, or a
\* reply whose last bytes an I/O error cut off.
Delivered(reply, lost) == SubSeq(reply, 1, Len(reply) - lost)

OriginData ==
  {Delivered(r, lost) : r \in OriginReplies, lost \in 0..MaxLost}

\* The results of the pure functions on the inputs, computed once and kept
\* as explicit tables.
Parsed == [d \in ClientData |-> parse_request(get_request(d))] @@ <<>>
Names ==
  [d \in ClientData |-> [file_name |-> get_file_name(Parsed[d].url),
                         server_name |-> get_server_name(Parsed[d].url)]] @@ <<>>
Digested == [d \in OriginData |-> digest(read_to_string(d))] @@ <<>>

(***************************************************************************)
(* The state: the cache directory, and each handler thread's position,     *)
(* locals and effects.                                                     *)
(***************************************************************************)
Handlers == 1..NumHandlers

VARIABLES
  cache,      \* the files of CACHE_DIR: file name |-> contents
  pc,         \* where each handler is in handle_connection
  received,   \* the bytes the handler read from its client
  origin,     \* the bytes the origin delivered to the handler
  response,   \* the local `response` after read_to_string
  sent,       \* the bytes the handler has written to its client
  dialed,     \* the hosts the handler has connected to, in order
  upstream,   \* the bytes the handler has written to the origin
  logged,     \* whether the handler's record is in the log file
  probe,      \* what check_cache answered: "none" before it, "hit", "miss"
  touched,    \* whether the handler has opened (so created) its cache file
  stored,     \* the bytes the handler has appended to its cache file
  faults,     \* the I/O failures the environment dealt the handler
  outcome     \* which exit of handle_connection the handler took

vars == <<cache, pc, received, origin, response, sent, dialed, upstream,
          logged, probe, touched, stored, faults, outcome>>

Ended == {"returned", "panicked"}

\* The locals of a handler that has read its request.
request_of(h) == Parsed[received[h]]
method_of(h) == request_of(h).method
url_of(h) == request_of(h).url
version_of(h) == request_of(h).version
file_name_of(h) == Names[received[h]].file_name
server_name_of(h) == Names[received[h]].server_name
digest_of(h) == Digested[origin[h]]

\* check_cache: Path::exists on CACHE_DIR/file_name.
check_cache(file_name) == file_name \in DOMAIN cache

\* open_file's effect on the directory: create(true) makes a missing file,
\* empty; an existing file is left as it is (no truncate).
open_file(files, name) ==
  [n \in DOMAIN files \cup {name} |->
     IF n \in DOMAIN files THEN files[n] ELSE <<>>]

\* A write through a handle opened with append(true): at the end of the file.
write_all(files, name, bytes) == [files EXCEPT ![name] = @ \o bytes]

\* "<version> 200 OK\r\n\r\n" of lines 199, 300 and 316.
status_line(version) == version \o OK_LINE

\* "old": a blob left by an earlier run
OldBlob == <<111, 108, 100>>

\* The cache directory at start-up: empty, or holding a file from an earlier
\* run under the name "f".
InitialCaches == {<<>>, [n \in {get_file_name(UrlAF)} |-> OldBlob]}

Init ==
  /\ cache \in InitialCaches
  /\ pc = [h \in Handlers |-> "idle"]
  /\ received = [h \in Handlers |-> <<>>]
  /\ origin = [h \in Handlers |-> <<>>]
  /\ response = [h \in Handlers |-> <<>>]
  /\ sent = [h \in Handlers |-> <<>>]
  /\ dialed = [h \in Handlers |-> <<>>]
  /\ upstream = [h \in Handlers |-> <<>>]
  /\ logged = [h \in Handlers |-> FALSE]
  /\ probe = [h \in Handlers |-> "none"]
  /\ touched = [h \in Handlers |-> FALSE]
  /\ stored = [h \in Handlers |-> <<>>]
  /\ faults = [h \in Handlers |-> {}]
  /\ outcome = [h \in Handlers |-> "none"]

\* A handler that, having turned a request away for its version, waits for
\* the next request on the connection instead of returning.
LeaveOrRetry(h, how, why) ==
  /\ pc' = [pc EXCEPT ![h] = IF why = "invalid_version" THEN "get_request"
                              ELSE how]
  /\ outcome' = [outcome EXCEPT ![h] = why]

\* The handler leaves handle_connection by `how` ("returned" or "panicked").
Leave(h, how, why) ==
  /\ pc' = [pc EXCEPT ![h] = how]
  /\ outcome' = [outcome EXCEPT ![h] = why]

Goto(h, where) ==
  /\ pc' = [pc EXCEPT ![h] = where]
  /\ UNCHANGED outcome

\* The environment may let one more I/O operation fail.
MayFail == Cardinality({<<h, f>> \in Handlers \X UNION {faults[h] : h \in Handlers} :
                          f \in faults[h]}) < MaxFaults

Fault(h, what) ==
  /\ MayFail
  /\ faults' = [faults EXCEPT ![h] = @ \cup {what}]

\* main's loop: accept one connection and spawn its handler thread.
Accept(h) ==
  /\ pc[h] = "idle"
  /\ \A g \in Handlers : g < h => pc[g] # "idle"
  /\ Goto(h, "get_request")
  /\ UNCHANGED <<cache, received, origin, response, sent, dialed, upstream,
                 logged, probe, touched, stored, faults>>

\* Lines 136-145, the read fails or times out: return.
ReadFails(h) ==
  /\ pc[h] = "get_request"
  /\ Fault(h, "client_read")
  /\ Leave(h, "returned", "read_error")
  /\ UNCHANGED <<cache, received, origin, response, sent, dialed, upstream,
                 logged, probe, touched, stored>>

\* Lines 136-176: read the request, parse it, check the version, log it,
\* derive the names.  log is what the log file's open and write do.
ReadRequest(h, data, log) ==
  /\ pc[h] = "get_request"
  /\ received' = [received EXCEPT ![h] = data]
  /\ LET p == Parsed[data]
     IN IF ~p.ok
          THEN /\ Leave(h, "panicked", "panic_parse")
               /\ UNCHANGED <<logged, faults>>
        ELSE IF ~check_version(p.version)
          THEN /\ Leave(h, "returned", "invalid_version")
               /\ UNCHANGED <<logged, faults>>
        ELSE IF log # "ok"
          THEN /\ Leave(h, "panicked", "panic_log")
               /\ Fault(h, log)
               /\ UNCHANGED logged
        ELSE /\ logged' = [logged EXCEPT ![h] = TRUE]
             /\ UNCHANGED faults
             /\ IF Names[data].file_name = <<>>
                  THEN Leave(h, "returned", "no_file_name")
                ELSE IF Names[data].server_name = <<>>
                  THEN Leave(h, "returned", "no_server_name")
                ELSE Goto(h, "check_cache")
  /\ UNCHANGED <<cache, origin, response, sent, dialed, upstream, probe,
                 touched, stored>>

\* Line 183.
CheckCache(h) ==
  /\ pc[h] = "check_cache"
  /\ IF check_cache(file_name_of(h))
       THEN /\ probe' = [probe EXCEPT ![h] = "hit"]
            /\ Goto(h, "hit_open")
       ELSE /\ probe' = [probe EXCEPT ![h] = "miss"]
            /\ Goto(h, "connect")
  /\ UNCHANGED <<cache, received, origin, response, sent, dialed, upstream,
                 logged, touched, stored, faults>>

\* Lines 187-202: open the cached file, write the status line to the client.
HitOpen(h) ==
  /\ pc[h] = "hit_open"
  /\ cache' = open_file(cache, file_name_of(h))
  /\ touched' = [touched EXCEPT ![h] = TRUE]
  /\ sent' = [sent EXCEPT ![h] = @ \o status_line(version_of(h))]
  /\ Goto(h, "hit_copy")
  /\ UNCHANGED <<received, origin, response, dialed, upstream, logged, probe,
                 stored, faults>>

\* Line 45 under line 190: the open fails and open_file's expect panics.
HitOpenFails(h) ==
  /\ pc[h] = "hit_open"
  /\ Fault(h, "cache_open")
  /\ Leave(h, "panicked", "panic_open")
  /\ UNCHANGED <<cache, received, origin, response, sent, dialed, upstream,
                 logged, probe, touched, stored>>

\* Line 205 without the return of line 208: the handler goes on to fetch.
HitCopyNoReturn(h) ==
  /\ pc[h] = "hit_copy"
  /\ sent' = [sent EXCEPT ![h] = @ \o cache[file_name_of(h)]]
  /\ Goto(h, "connect")
  /\ UNCHANGED <<cache, received, origin, response, dialed, upstream, logged,
                 probe, touched, stored, faults>>

\* Line 205: copy the file to the client, then return.
HitCopy(h) ==
  /\ pc[h] = "hit_copy"
  /\ sent' = [sent EXCEPT ![h] = @ \o cache[file_name_of(h)]]
  /\ Leave(h, "returned", "served_cached")
  /\ UNCHANGED <<cache, received, origin, response, dialed, upstream, logged,
                 probe, touched, stored, faults>>

\* Lines 212-224: connect to server_name:80 and write the request.
Connect(h) ==
  /\ pc[h] = "connect"
  /\ dialed' = [dialed EXCEPT ![h] = Append(@, server_name_of(h))]
  /\ upstream' = [upstream EXCEPT ![h] =
                    origin_request(method_of(h), url_of(h), server_name_of(h))]
  /\ Goto(h, "read_origin")
  /\ UNCHANGED <<cache, received, origin, response, sent, logged, probe,
                 touched, stored, faults>>

\* Lines 212-224 when the write of line 224 fails: its Result is discarded
\* and the handler goes on to read the origin's reply.
OriginWriteFails(h) ==
  /\ pc[h] = "connect"
  /\ dialed' = [dialed EXCEPT ![h] = Append(@, server_name_of(h))]
  /\ Fault(h, "origin_write")
  /\ Goto(h, "read_origin")
  /\ UNCHANGED <<cache, received, origin, response, sent, upstream, logged,
                 probe, touched, stored>>

\* Lines 214-217: the connection fails: return.
ConnectFails(h) ==
  /\ pc[h] = "connect"
  /\ Fault(h, "connect")
  /\ Leave(h, "returned", "connect_failed")
  /\ UNCHANGED <<cache, received, origin, response, sent, dialed, upstream,
                 logged, probe, touched, stored>>

\* Lines 227-286: read the origin's reply to its end, or to an I/O error that
\* loses its last `lost` bytes; take the status; a reply that is not a 200
\* is to be relayed; else split it, read the headers and decode the body.
ReadOrigin(h, reply, lost) ==
  /\ pc[h] = "read_origin"
  /\ LET data == Delivered(reply, lost)
         d == Digested[data]
     IN /\ origin' = [origin EXCEPT ![h] = data]
        /\ response' = [response EXCEPT ![h] = read_to_string(data)]
        /\ IF lost > 0 THEN Fault(h, "origin_read") ELSE UNCHANGED faults
        /\ CASE d.kind = "panic" -> Leave(h, "panicked", "panic_response")
             [] d.kind = "relay" -> Goto(h, "relay")
             [] d.kind = "store" -> Goto(h, "store_open")
  /\ UNCHANGED <<cache, received, sent, dialed, upstream, logged, probe,
                 touched, stored>>

\* Lines 236-240 without the return of line 243: the handler goes on to the
\* 200 path.
RelayNoReturn(h) ==
  /\ pc[h] = "relay"
  /\ sent' = [sent EXCEPT ![h] = @ \o response[h]]
  /\ Goto(h, "store_open")
  /\ UNCHANGED <<cache, received, origin, response, dialed, upstream, logged,
                 probe, touched, stored, faults>>

\* Lines 236-243: write the response to the client as it is, then return.
Relay(h) ==
  /\ pc[h] = "relay"
  /\ sent' = [sent EXCEPT ![h] = @ \o response[h]]
  /\ Leave(h, "returned", "relayed")
  /\ UNCHANGED <<cache, received, origin, response, dialed, upstream, logged,
                 probe, touched, stored, faults>>

\* The response sent first (lines 316-318 before lines 304-314): the client
\* is served while the cache file is not there yet.
SendBeforeStore(h) ==
  /\ pc[h] = "store_open"
  /\ sent' = [sent EXCEPT ![h] =
                @ \o status_line(version_of(h)) \o digest_of(h).buffer]
  /\ Goto(h, "store_write")
  /\ UNCHANGED <<cache, received, origin, response, dialed, upstream, logged,
                 probe, touched, stored, faults>>

\* Lines 288-296 and 304-312: open the cache file for the body.
StoreOpen(h) ==
  /\ pc[h] = "store_open"
  /\ cache' = open_file(cache, file_name_of(h))
  /\ touched' = [touched EXCEPT ![h] = TRUE]
  /\ Goto(h, "store_write")
  /\ UNCHANGED <<received, origin, response, sent, dialed, upstream, logged,
                 probe, stored, faults>>

\* Line 45 under lines 289 and 305: the open fails and the expect panics.
StoreOpenFails(h) ==
  /\ pc[h] = "store_open"
  /\ Fault(h, "cache_open")
  /\ Leave(h, "panicked", "panic_open")
  /\ UNCHANGED <<cache, received, origin, response, sent, dialed, upstream,
                 logged, probe, touched, stored>>

\* Lines 298 and 314: write the body to the cache file.
StoreWrite(h) ==
  /\ pc[h] = "store_write"
  /\ cache' = write_all(cache, file_name_of(h), digest_of(h).buffer)
  /\ stored' = [stored EXCEPT ![h] = @ \o digest_of(h).buffer]
  /\ Goto(h, "respond")
  /\ UNCHANGED <<received, origin, response, sent, dialed, upstream, logged,
                 probe, touched, faults>>

\* Lines 298 and 314, the write fails after `n` bytes; the Result is
\* discarded and the handler goes on.
StoreWriteFails(h, n) ==
  /\ pc[h] = "store_write"
  /\ n < Len(digest_of(h).buffer)
  /\ LET part == SubSeq(digest_of(h).buffer, 1, n)
     IN /\ cache' = write_all(cache, file_name_of(h), part)
        /\ stored' = [stored EXCEPT ![h] = @ \o part]
  /\ Fault(h, "cache_write")
  /\ Goto(h, "respond")
  /\ UNCHANGED <<received, origin, response, sent, dialed, upstream, logged,
                 probe, touched>>

\* Lines 300-302 and 316-318: the status line and the body to the client.
Respond(h) ==
  /\ pc[h] = "respond"
  /\ sent' = [sent EXCEPT ![h] =
                @ \o status_line(version_of(h)) \o digest_of(h).buffer]
  /\ Leave(h, "returned", "retrieved")
  /\ UNCHANGED <<cache, received, origin, response, dialed, upstream, logged,
                 probe, touched, stored, faults>>

\* One step of an accepted handler h when the clients send one of `requests`
\* and the origins answer with one of `replies`.
Handle(h, requests, replies) ==
    \/ ReadFails(h)
    \/ \E data \in requests, log \in {"ok", "log_open", "log_write"} :
         ReadRequest(h, data, log)
    \/ CheckCache(h)
    \/ HitOpen(h)
    \/ HitOpenFails(h)
    \/ HitCopy(h)
    \/ Connect(h)
    \/ OriginWriteFails(h)
    \/ ConnectFails(h)
    \/ \E reply \in replies, lost \in 0..MaxLost :
         ReadOrigin(h, reply, lost)
    \/ Relay(h)
    \/ StoreOpen(h)
    \/ StoreOpenFails(h)
    \/ StoreWrite(h)
    \/ \E n \in 0..MaxPartial : StoreWriteFails(h, n)
    \/ Respond(h)

\* Concurrent handlers over the common requests and replies.
Next == \E h \in Handlers : Accept(h) \/ Handle(h, CommonData, CommonReplies)

Spec == Init /\ [][Next]_vars

\* The first connection alone, over all requests and replies of the model.
OneNext == Accept(1) \/ Handle(1, ClientData, OriginReplies)

OneConnection == Init /\ [][OneNext]_vars

\* Clients that come one after the other: a connection is accepted when the
\* handlers of all earlier ones have ended.
AcceptNext(h) ==
  /\ \A g \in Handlers : g < h => pc[g] \in Ended
  /\ Accept(h)

SeqNext ==
  \E h \in Handlers : AcceptNext(h) \/ Handle(h, CommonData, CommonReplies)

Sequential == Init /\ [][SeqNext]_vars

\* What the code and the operating system let end by themselves: the read of
\* the client socket (data, or the time-out of line 138), the probe, the file
\* operations, the connection attempt and the short writes of the request and
\* of a status line.
Progress(h) ==
  /\ WF_vars(ReadFails(h)
               \/ \E data \in ClientData, log \in {"ok", "log_open", "log_write"} :
                    ReadRequest(h, data, log))
  /\ WF_vars(CheckCache(h))
  /\ WF_vars(HitOpen(h) \/ HitOpenFails(h))
  /\ WF_vars(Connect(h) \/ OriginWriteFails(h) \/ ConnectFails(h))
  /\ WF_vars(StoreOpen(h) \/ StoreOpenFails(h))
  /\ WF_vars(StoreWrite(h) \/ \E n \in 0..MaxPartial : StoreWriteFails(h, n))

\* The origin ends its reply: it closes the connection, or the read fails.
\* Line 228 has no time-out of its own.
OriginCloses(h) ==
  WF_vars(\E reply \in OriginReplies, lost \in 0..MaxLost :
            ReadOrigin(h, reply, lost))

\* The first connection alone, with a fair scheduler and an origin that ends
\* its reply.  Nothing is assumed of the writes of a response to the client
\* (lines 205, 240, 301 and 317), which have no time-out either.
FairConnection == OneConnection /\ Progress(1) /\ OriginCloses(1)

(***************************************************************************)
(* What the claims speak of.                                               *)
(***************************************************************************)
\* The handler has read a request from its client.
Handled(h) == pc[h] \notin {"idle", "get_request"} /\ outcome[h] # "read_error"

\* The request passes validation: three tokens, version HTTP/1.1, a file
\* name and a server name.
Valid(h) ==
  /\ Handled(h)
  /\ request_of(h).ok
  /\ version_of(h) = HTTP11
  /\ file_name_of(h) # <<>>
  /\ server_name_of(h) # <<>>

\* The handler has read the origin's reply.
Fetched(h) == dialed[h] # <<>> /\ pc[h] # "read_origin"

HasPrefix(s, p) == Len(s) >= Len(p) /\ SubSeq(s, 1, Len(p)) = p

\* The bytes after the last "/" of a target, all of it when it has none.
LastSegment(url) ==
  LET at == {i \in 1..Len(url) : url[i] = SLASH[1]}
  IN IF at = {} THEN url
     ELSE Tail2(url, (CHOOSE i \in at : \A j \in at : j <= i) + 1)

\* The status code of a reply: the second space-delimited token of its
\* first line, empty when the line has no second token.
StatusOf(reply) ==
  LET tokens == Split(Split(reply, CRLF)[1], SP)
  IN IF Len(tokens) < 2 THEN <<>> ELSE tokens[2]

\* A reply has a header block and a body when it holds a blank line.
HasBoundary(reply) == Find(reply, CRLFCRLF) # 0
HeadOf(reply) == SubSeq(reply, 1, Find(reply, CRLFCRLF) - 1)
BodyOf(reply) == Tail2(reply, Find(reply, CRLFCRLF) + Len(CRLFCRLF))
EncodingOf(reply) == header_value(Split(HeadOf(reply), CRLF), CONTENT_ENCODING, <<>>)

\* The normalized body of a 200 reply: decoded iff Content-Encoding is gzip.
NormalizedBody(reply) ==
  IF EncodingOf(reply).value = GZIP THEN GzDecode(BodyOf(reply)).data
  ELSE BodyOf(reply)

(***************************************************************************)
(* C1.  Cache short-circuit.                                               *)
(***************************************************************************)
\* C1 as stated: a handler whose probe found a blob under its key sends a
\* response to its client and opens no connection to an origin.
C1_Original ==
  \A h \in Handlers :
    (probe[h] = "hit" /\ pc[h] \in Ended) => (sent[h] # <<>> /\ dialed[h] = <<>>)

\* The probe of a valid request answers "hit" whenever its key has a blob.
C1_ProbeHits ==
  \A h \in Handlers :
    (pc[h] = "check_cache" /\ pc'[h] # "check_cache"
       /\ file_name_of(h) \in DOMAIN cache) => pc'[h] = "hit_open"

\* C1 amended: a handler whose key has a blob at the probe takes the hit
\* path; from then on it opens no connection and writes nothing to an
\* origin; it ends having sent the status line and then the blob, unless
\* opening the cached file failed, and then it ends having sent nothing.
C1_ShortCircuit ==
  /\ [][C1_ProbeHits]_vars
  /\ [](\A h \in Handlers :
          probe[h] = "hit" =>
            /\ dialed[h] = <<>>
            /\ upstream[h] = <<>>
            /\ pc[h] \in Ended =>
                 IF "cache_open" \in faults[h] THEN sent[h] = <<>>
                 ELSE sent[h] = status_line(HTTP11) \o cache[file_name_of(h)])

\* A request for host a is served the blob an earlier run left under "f".
C1_Witness ==
  \E h \in Handlers :
    /\ probe[h] = "hit" /\ pc[h] = "returned"
    /\ sent[h] = status_line(HTTP11) \o OldBlob
    /\ dialed[h] = <<>>

(***************************************************************************)
(* C2.  Non-200 pass-through.                                              *)
(***************************************************************************)
\* C2 as stated, with no I/O failure: after a miss, a complete reply whose
\* status code is not 200 reaches the client as it is, and the handler
\* creates and writes no cache file.
C2_PassThrough ==
  \A h \in Handlers :
    (/\ pc[h] \in Ended /\ probe[h] = "miss" /\ Fetched(h) /\ faults[h] = {}
     /\ StatusOf(origin[h]) \notin {<<>>, S200})
      => (sent[h] = origin[h] /\ ~touched[h] /\ stored[h] = <<>>)

(***************************************************************************)
(* C3.  Successful miss.                                                   *)
(***************************************************************************)
\* C3 as stated, with no I/O failure and a single handler: after a miss and
\* a complete, well-formed 200 reply the cache file holds the normalized
\* body and the client has the status line followed by the file's bytes.
C3_SuccessfulMiss ==
  \A h \in Handlers :
    (/\ pc[h] \in Ended /\ probe[h] = "miss" /\ Fetched(h) /\ faults[h] = {}
     /\ StatusOf(origin[h]) = S200
     /\ HasBoundary(origin[h])
     /\ EncodingOf(origin[h]).ok
     /\ EncodingOf(origin[h]).value = GZIP => GzDecode(BodyOf(origin[h])).ok)
      => /\ file_name_of(h) \in DOMAIN cache
         /\ cache[file_name_of(h)] = NormalizedBody(origin[h])
         /\ sent[h] = status_line(version_of(h)) \o cache[file_name_of(h)]

(***************************************************************************)
(* C4.  Repeat request.                                                    *)
(***************************************************************************)
\* C4 as stated, with no I/O failure: the first two clients send the same
\* valid request one after the other, the first misses and its origin
\* answers 200; then the second client receives what the first received,
\* the status line and the body the first handler stored, and the second
\* handler writes nothing to the cache.
C4_RepeatRequest ==
  (/\ NumHandlers >= 2
   /\ pc[1] \in Ended /\ pc[2] \in Ended
   /\ Valid(1) /\ Valid(2) /\ received[1] = received[2]
   /\ probe[1] = "miss" /\ Fetched(1) /\ StatusOf(origin[1]) = S200
   /\ faults[1] = {} /\ faults[2] = {})
    => /\ sent[2] = sent[1]
       /\ sent[2] = status_line(version_of(1)) \o stored[1]
       /\ stored[2] = <<>>

(***************************************************************************)
(* C5.  Concurrent misses for the same key.                                *)
(***************************************************************************)
\* C5 as stated, with no I/O failure: when all handlers have ended and two
\* or more of them missed on the same key and stored a 200 body, the file
\* holds the bytes of exactly one of them.
C5_LastWriterWins ==
  \A k \in DOMAIN cache :
    LET writers == {h \in Handlers : /\ outcome[h] = "retrieved"
                                     /\ probe[h] = "miss"
                                     /\ file_name_of(h) = k}
    IN (/\ Cardinality(writers) >= 2
        /\ \A h \in Handlers : pc[h] \in Ended /\ faults[h] = {})
         => \E w \in writers : cache[k] = stored[w]

(***************************************************************************)
(* C6.  Decompression failure.                                             *)
(***************************************************************************)
\* C6 as stated: after a complete 200 reply that says gzip and whose body
\* does not decompress, the handler has opened and written no cache file and
\* has sent nothing.
C6_DecodeFailureAborts ==
  \A h \in Handlers :
    (/\ pc[h] \in Ended /\ Fetched(h) /\ faults[h] = {}
     /\ StatusOf(origin[h]) = S200
     /\ HasBoundary(origin[h])
     /\ EncodingOf(origin[h]).ok
     /\ EncodingOf(origin[h]).value = GZIP
     /\ ~GzDecode(BodyOf(origin[h])).ok)
      => (~touched[h] /\ stored[h] = <<>> /\ sent[h] = <<>>)

(***************************************************************************)
(* C7.  Parser totality.                                                   *)
(***************************************************************************)
\* C7 as stated: a request that parse_request cannot turn into a triple
\* makes the handler return; it never panics.
C7_ParserTotal ==
  \A h \in Handlers :
    (Handled(h) /\ ~request_of(h).ok) => pc[h] = "returned"

(***************************************************************************)
(* C8.  Validation aborts are silent and effect-free.                      *)
(***************************************************************************)
\* C8: a handler whose request has a version other than "HTTP/1.1", or an
\* empty file name, or an empty server name, has ended without a byte to its
\* client, without a connection or a byte to an origin, and without opening
\* or writing a cache file; the cache directory is as it was at the start.
C8_SilentAbort ==
  \A h \in Handlers :
    (/\ Handled(h) /\ request_of(h).ok
     /\ \/ version_of(h) # HTTP11
        \/ file_name_of(h) = <<>>
        \/ server_name_of(h) = <<>>)
      => /\ pc[h] \in Ended
         /\ probe[h] = "none"
         /\ sent[h] = <<>> /\ dialed[h] = <<>> /\ upstream[h] = <<>>
         /\ ~touched[h] /\ stored[h] = <<>>
         /\ cache \in InitialCaches

\* A request for a cached file with version HTTP/1.0 has been turned away.
C8_Witness ==
  \E h \in Handlers :
    /\ pc[h] = "returned"
    /\ received[h] = RequestText(GET, UrlAF, HTTP10)
    /\ get_file_name(UrlAF) \in DOMAIN cache
    /\ sent[h] = <<>>

(***************************************************************************)
(* C9.  Cache I/O failure.                                                 *)
(***************************************************************************)
\* C9 as stated: a handler on the miss path whose open or write of the cache
\* file failed ends without sending anything.
C9_CacheFailureSilent ==
  \A h \in Handlers :
    (/\ pc[h] \in Ended /\ probe[h] = "miss"
     /\ faults[h] \cap {"cache_open", "cache_write"} # {})
      => sent[h] = <<>>

(***************************************************************************)
(* C10.  Cache keys ignore the host.                                       *)
(***************************************************************************)
\* The later handler h asks another host for the last segment that the
\* earlier handler g fetched and stored.
SameFileOtherHost(g, h) ==
  /\ g < h
  /\ outcome[g] = "retrieved"
  /\ Valid(h)
  /\ server_name_of(h) # server_name_of(g)
  /\ LastSegment(url_of(h)) = LastSegment(url_of(g))

\* Two requests have the same cache key iff their targets end alike.
KeyIsLastSegment ==
  \A g, h \in Handlers :
    (Handled(g) /\ Handled(h) /\ request_of(g).ok /\ request_of(h).ok)
      => ((file_name_of(g) = file_name_of(h))
            <=> (LastSegment(url_of(g)) = LastSegment(url_of(h))))

CompleteBlobs(replies) ==
  {OldBlob}
    \cup {NormalizedBody(r) :
            r \in {q \in replies :
                     /\ StatusOf(q) = S200 /\ HasBoundary(q)
                     /\ EncodingOf(q).ok
                     /\ EncodingOf(q).value = GZIP => GzDecode(BodyOf(q)).ok}}

\* C11 as stated: while no I/O operation has failed, a handler that took the
\* cache-hit path has sent its client the status line and a complete blob,
\* whatever the other handlers were doing.
C11_BlobsComplete ==
  \A h \in Handlers :
    (outcome[h] = "served_cached" /\ \A g \in Handlers : faults[g] = {})
       => \E b \in CompleteBlobs(CommonReplies) :
            sent[h] = status_line(HTTP11) \o b

(***************************************************************************)
(* C12.  Missing header/body boundary.                                     *)
(***************************************************************************)
\* C12 as stated, with no I/O failure: a handler whose origin's reply holds
\* no blank line ends having sent nothing to its client and having neither
\* created nor written a cache file.
C12_MissingBoundary ==
  \A h \in Handlers :
    (/\ pc[h] \in Ended /\ Fetched(h) /\ faults[h] = {}
     /\ ~HasBoundary(origin[h]))
       => /\ sent[h] = <<>>
          /\ ~touched[h] /\ stored[h] = <<>>

(***************************************************************************)
(* C13.  Body split on the first boundary.                                 *)
(***************************************************************************)
\* C13 as stated, with no I/O failure: when a handler has cached and served
\* a 200 reply with no Content-Encoding of gzip, the bytes it appended to
\* the cache file and the bytes it sent after the status line are all of
\* the reply after its first blank line.
C13_FirstBoundary ==
  \A h \in Handlers :
    (/\ outcome[h] = "retrieved" /\ faults[h] = {}
     /\ EncodingOf(origin[h]).value # GZIP)
       => /\ stored[h] = BodyOf(origin[h])
          /\ sent[h] = status_line(HTTP11) \o BodyOf(origin[h])

(***************************************************************************)
(* C14.  Status code extraction.                                           *)
(***************************************************************************)
\* C14 as stated, with no I/O failure: the handler caches and serves only a
\* reply whose status line has "200" as its second token, relays only a
\* reply whose status line has another second token, and ends with nothing
\* sent or cached when the status line has no second token.
C14_StatusFromStatusLine ==
  \A h \in Handlers :
    (pc[h] \in Ended /\ Fetched(h) /\ faults[h] = {})
       => /\ touched[h] => StatusOf(origin[h]) = S200
          /\ outcome[h] = "relayed" => StatusOf(origin[h]) \notin {<<>>, S200}
          /\ StatusOf(origin[h]) = <<>> => (sent[h] = <<>> /\ ~touched[h])

(***************************************************************************)
(* C15.  Origin socket I/O errors abort the request.                       *)
(***************************************************************************)
\* C15 as stated: a handler whose write to the origin or whose read of the
\* origin's reply failed ends with nothing sent to its client and neither
\* creates nor writes a cache file.
C15_OriginErrorAborts ==
  \A h \in Handlers :
    (faults[h] \cap {"origin_write", "origin_read"} # {})
       => /\ sent[h] = <<>>
          /\ ~touched[h] /\ stored[h] = <<>>

(***************************************************************************)
(* C16.  Logging failure is non-fatal.                                     *)
(***************************************************************************)
\* C16 as stated: a handler of a valid request whose open or write of the
\* log file failed goes on to probe the cache, and so does not end before
\* check_cache has answered.
C16_LogFailureNonFatal ==
  \A h \in Handlers :
    (/\ pc[h] \in Ended /\ Valid(h)
     /\ faults[h] \cap {"log_open", "log_write"} # {})
       => /\ pc[h] # "panicked"
          /\ probe[h] # "none"

(***************************************************************************)
(* C17.  Handler termination.                                              *)
(***************************************************************************)
\* The client goes on reading: a write of a response to it ends.
ClientDrains(h) ==
  /\ WF_vars(HitCopy(h)) /\ WF_vars(Relay(h)) /\ WF_vars(Respond(h))

\* C17 as stated: with a fair scheduler and an origin that ends its reply,
\* every accepted handler ends.
C17_Original ==
  \A h \in Handlers : (pc[h] # "idle") ~> (pc[h] \in Ended)

\* C17: with a fair scheduler and an origin that ends its reply, every
\* accepted handler ends or stays at a write of a response to its client; it
\* never stays at the read of its client's request; and it ends when its
\* client goes on reading.
C17_Terminates ==
  /\ \A h \in Handlers :
       (pc[h] # "idle") ~> (pc[h] \in Ended \cup {"hit_copy", "relay", "respond"})
  /\ (\A h \in Handlers : ClientDrains(h))
        => \A h \in Handlers : (pc[h] # "idle") ~> (pc[h] \in Ended)

\* A handler has fetched a reply, served its client and returned.
C17_Witness ==
  \E h \in Handlers :
    /\ pc[h] = "returned" /\ origin[h] # <<>>
    /\ outcome[h] \in {"relayed", "retrieved"} /\ sent[h] # <<>>

(***************************************************************************)
(* C18.  At most one origin connection and one response.                   *)
(***************************************************************************)
\* C18: a handler connects to at most one origin, and what it has sent to
\* its client is nothing, or the status line alone while it copies a cached
\* file, or exactly one of: the status line and the cached file (after a
\* hit, with no connection), the origin's response as it is (after a reply
\* that is not a 200, with no cache file touched), the status line and the
\* fetched body (after a 200).  A handler that ended in any other way has
\* sent nothing.
C18_OneResponse ==
  \A h \in Handlers :
    /\ Len(dialed[h]) <= 1
    /\ CASE outcome[h] = "served_cached" ->
              /\ dialed[h] = <<>>
              /\ sent[h] = status_line(HTTP11) \o cache[file_name_of(h)]
         [] outcome[h] = "relayed" ->
              /\ Len(dialed[h]) = 1 /\ ~touched[h]
              /\ sent[h] = response[h]
              /\ digest_of(h).status # S200
              /\ ~HasPrefix(sent[h], status_line(HTTP11))
         [] outcome[h] = "retrieved" ->
              /\ Len(dialed[h]) = 1
              /\ digest_of(h).status = S200
              /\ sent[h] = status_line(HTTP11) \o digest_of(h).buffer
         [] OTHER ->
              \/ sent[h] = <<>>
              \/ pc[h] = "hit_copy" /\ sent[h] = status_line(HTTP11)

\* A reply that is not a 200 has been relayed, and nothing else sent.
C18_Witness ==
  \E h \in Handlers :
    /\ outcome[h] = "relayed"
    /\ sent[h] = response[h] /\ StatusOf(response[h]) # S200
    /\ Len(dialed[h]) = 1

(***************************************************************************)
(* C19.  The cache write comes before the send.                            *)
(***************************************************************************)
\* C19: in every state in which a handler that missed has sent its client
\* the proxy-made status line, a file exists under the handler's cache key;
\* the handler has opened it and has gone through its write of the body,
\* which, unless that write failed, put the whole body in the file.
C19_StoredBeforeSent ==
  \A h \in Handlers :
    (probe[h] = "miss" /\ HasPrefix(sent[h], status_line(HTTP11)))
       => /\ file_name_of(h) \in DOMAIN cache
          /\ touched[h]
          /\ pc[h] = "returned" /\ outcome[h] = "retrieved"
          /\ "cache_write" \notin faults[h] => stored[h] = digest_of(h).buffer

\* A client has the status line and the body "hi" of a miss, and the file
\* holds that body.
C19_Witness ==
  \E h \in Handlers :
    /\ probe[h] = "miss" /\ faults[h] = {}
    /\ sent[h] = status_line(HTTP11) \o <<104, 105>>
    /\ cache[file_name_of(h)] = <<104, 105>>

====
